---- MODULE Spec2Model ----
(***************************************************************************)
(* Model of GitlabCleaner: the main task (src/src/main.rs), the Git actor  *)
(* (src/src/actors/git.rs) and the Displ actor (src/src/actors/displ.rs).  *)
(* The two actors own a FIFO mailbox each and handle one message at a time *)
(* (the handlers take &mut self); `ask` puts a message in the mailbox and  *)
(* suspends the asker until the reply arrives.  The remote GitLab server   *)
(* is the environment: every answer it can give is a nondeterministic      *)
(* choice inside the handler that sends the request.                       *)
(***************************************************************************)
EXTENDS Integers, Sequences, FiniteSets, TLC

\* ---------------------------------------------------------------- bounds
\* Messages sent to the Displ actor when it is exercised on its own, at most.
MaxDisplMsgs == 3
\* Lengths of the batches begun then are 0..MaxLength.
MaxLength == 2
\* Jobs the server returns over a whole run, at most.
MaxJobs == 2
\* list_jobs requests the server answers in a run, at most.
MaxPages == 2
\* Job ids, and the timestamps, are 1..MaxJobId.
MaxJobId == 2
\* Projects in a search response, at most.
MaxProjects == 2
\* Project ids are 1..MaxProjectId.
MaxProjectId == 1

\* ---------------------------------------------------------------- values
\* Option<T> is a sequence of length at most one.
None == <<>>
Some(x) == <<x>>

SeqsUpTo(S, n) == UNION {[1..k -> S] : k \in 0..n}

\* The asker of a message: the main task, or the future of full_jobs[i].
MainTask == 0

\* Job { id, created_at, erased_at }: erased_at is deserialized and never read.
\* The server's jobs: ids grow with time, job i was created at time i.
Job == {[id |-> i, created_at |-> i] : i \in 1..MaxJobId}

\* Project { id, name }: only the id is read.
Project == [id : 1..MaxProjectId]

\* Values the server may give the x-next-page header: GitLab sends the empty
\* string on the last page; the others exercise every branch of the parse
\* ("\\xff" stands for a byte outside visible ASCII).
HeaderValues ==
  {<<>>, <<"3">>, <<"+", "3">>, <<"x">>, <<"3", "x">>, <<"+">>, <<"\\xff", "3">>}
Digits == {"0", "1", "2", "3", "4", "5", "6", "7", "8", "9"}
DigitVal(c) ==
  CASE c = "0" -> 0 [] c = "1" -> 1 [] c = "2" -> 2 [] c = "3" -> 3
    [] c = "4" -> 4 [] c = "5" -> 5 [] c = "6" -> 6 [] c = "7" -> 7
    [] c = "8" -> 8 [] c = "9" -> 9

\* HeaderValue::to_str: fails on a byte that is not visible ASCII.
ToStr(h) == IF \E k \in 1..Len(h) : h[k] = "\\xff" THEN None ELSE Some(h)

RECURSIVE DecimalValue(_)
DecimalValue(s) ==
  IF s = <<>> THEN 0
  ELSE 10 * DecimalValue(SubSeq(s, 1, Len(s) - 1)) + DigitVal(s[Len(s)])

\* str::parse::<u64>: an optional leading "+", then one or more digits.
\* (Overflow of u64 needs 20 digits, out of reach of HeaderValues.)
ParseU64(s) ==
  LET body == IF s # <<>> /\ Head(s) = "+" THEN Tail(s) ELSE s
  IN IF body = <<>> \/ \E k \in 1..Len(body) : body[k] \notin Digits
     THEN None
     ELSE Some(DecimalValue(body))

\* headers.get("x-next-page").and_then(to_str().ok()).and_then(parse().ok());
\* `header` is None when the response has no such header.
NextPage(header) ==
  IF header = None THEN None
  ELSE LET str == ToStr(header[1])
       IN IF str = None THEN None ELSE ParseU64(str[1])

\* ---------------------------------------------------------------- replies
NoReply == [kind |-> "NoReply", err |-> "", id |-> 0, jobs |-> <<>>, next_page |-> None]
OkUnit == [kind |-> "Ok", err |-> "", id |-> 0, jobs |-> <<>>, next_page |-> None]
OkId(i) == [kind |-> "Ok", err |-> "", id |-> i, jobs |-> <<>>, next_page |-> None]
OkJobs(js, np) == [kind |-> "Ok", err |-> "", id |-> 0, jobs |-> js, next_page |-> np]
ErrOf(k) == [kind |-> "Err", err |-> k, id |-> 0, jobs |-> <<>>, next_page |-> None]
\* What `ask` returns when the actor is gone (its handler panicked).
ActorError == [kind |-> "ActorError", err |-> "", id |-> 0, jobs |-> <<>>, next_page |-> None]

\* ---------------------------------------------------------------- state
VARIABLES
  pc,              \* position of the main task
  expiration_date, \* main: now - expiration_in_days
  project_id,      \* main: the resolved project id (0 before)
  jobs_page,       \* clean_jobs: Option<u64>
  full_jobs,       \* clean_jobs: Vec<Job>
  fut,             \* clean_jobs: position of each erase future
  results,         \* clean_jobs: outcome of each erase future
  git_mailbox,     \* messages waiting for the Git actor
  git_alive,       \* FALSE once a Git handler has panicked
  displ_mailbox,   \* messages waiting for the Displ actor
  progress_bar,    \* Displ.progress_bar: Option<{pos, len, msg}>
  reply,           \* reply[a]: the answer waiting for asker a
  output,          \* lines printed on stdout
  search_answers,  \* history: what the server answered to the project search
  list_requests,   \* history: page numbers of the list_jobs requests sent
  list_responses,  \* history: what the GetJobs handler returned, in order
  erase_requests,  \* history: erase requests sent, [idx, job_id], in order
  erase_outcomes,  \* history: what the EraseJob handler returned, in order
  displ_handled,   \* history: types of the messages Displ has handled, in order
  failed_order,    \* history: the futures that returned an error, in the order they did
  erase_answer     \* history: the store's answer to the erase request that returned last

vars == <<pc, expiration_date, project_id, jobs_page, full_jobs, fut, results,
          git_mailbox, git_alive, displ_mailbox, progress_bar, reply, output,
          search_answers, list_requests, list_responses, erase_requests,
          erase_outcomes, displ_handled, failed_order, erase_answer>>

mainVars == <<expiration_date, project_id, jobs_page, full_jobs, fut, results>>
gitVars == <<git_mailbox, git_alive>>
displVars == <<displ_mailbox, progress_bar>>
histVars == <<search_answers, list_requests, list_responses, erase_requests,
              erase_outcomes, displ_handled, failed_order, erase_answer>>

Askers == 0..(MaxJobs + 1)

Init ==
  /\ pc = "start"
  /\ expiration_date \in 1..MaxJobId
  /\ project_id = 0
  /\ jobs_page = None
  /\ full_jobs = <<>>
  /\ fut = <<>>
  /\ results = <<>>
  /\ git_mailbox = <<>>
  /\ git_alive = TRUE
  /\ displ_mailbox = <<>>
  /\ progress_bar = None
  /\ reply = [a \in Askers |-> NoReply]
  /\ output = <<>>
  /\ search_answers = <<>>
  /\ list_requests = <<>>
  /\ list_responses = <<>>
  /\ erase_requests = <<>>
  /\ erase_outcomes = <<>>
  /\ displ_handled = <<>>
  /\ failed_order = <<>>
  /\ erase_answer = None

\* ---------------------------------------------------------------- messages
GitMsg(t, from, arg) == [type |-> t, from |-> from, arg |-> arg]
DisplMsg(t, from, message, length) ==
  [type |-> t, from |-> from, message |-> message, length |-> length]

\* ---------------------------------------------------------------- Git actor
\* What the server can answer to the project search: the request fails, or
\* it returns a body that is a JSON list of projects, or some other body
\* (an error object, as GitLab sends with a 401).
SearchAnswers ==
  {[sent |-> "Err", decodes |-> FALSE, projects |-> <<>>]}
  \cup {[sent |-> "Ok", decodes |-> FALSE, projects |-> <<>>]}
  \cup {[sent |-> "Ok", decodes |-> TRUE, projects |-> ps] :
          ps \in SeqsUpTo(Project, MaxProjects)}

\* Handler<Event, GetProject>::handle; "Panic" is the unwrap of res.json().
GetProjectHandle(ans) ==
  IF ans.sent = "Ok"
  THEN IF ~ans.decodes THEN [kind |-> "Panic"]
       ELSE CASE Len(ans.projects) = 0 -> ErrOf("NotFound")
              [] Len(ans.projects) = 1 -> OkId(ans.projects[1].id)
              [] OTHER -> ErrOf("Unsupported")
  ELSE ErrOf("Other")

\* The Git actor takes the head of its mailbox; a panicking handler ends the
\* actor and the asker's `ask` returns an error.
GitReply(from, r) ==
  /\ git_mailbox' = Tail(git_mailbox)
  /\ IF r.kind = "Panic"
     THEN /\ git_alive' = FALSE
          /\ reply' = [reply EXCEPT ![from] = ActorError]
     ELSE /\ git_alive' = git_alive
          /\ reply' = [reply EXCEPT ![from] = r]

GitHandleGetProject ==
  /\ git_alive /\ git_mailbox # <<>>
  /\ Head(git_mailbox).type = "GetProject"
  /\ \E ans \in SearchAnswers :
       /\ GitReply(Head(git_mailbox).from, GetProjectHandle(ans))
       /\ search_answers' = Append(search_answers, ans)
  /\ UNCHANGED <<pc, mainVars, displVars, output, list_requests,
                 list_responses, erase_requests, erase_outcomes,
                 displ_handled, failed_order, erase_answer>>

\* ---------------------------------------------------------------- main
\* main.rs:65-70: git_ref.ask(GetProject)
MainAskGetProject ==
  /\ pc = "start"
  /\ git_mailbox' = Append(git_mailbox, GitMsg("GetProject", MainTask, 0))
  /\ pc' = "await_project"
  /\ UNCHANGED <<mainVars, git_alive, displVars, reply, output, histVars>>

\* Mutant of MainRecvProject: the error is swallowed (unwrap_or_default) and
\* the run goes on with project id 0.
MainRecvProject_SwallowsError ==
  /\ pc = "await_project"
  /\ reply[MainTask] # NoReply
  /\ reply' = [reply EXCEPT ![MainTask] = NoReply]
  /\ project_id' = IF reply[MainTask].kind = "Ok" THEN reply[MainTask].id ELSE 0
  /\ jobs_page' = Some(1)
  /\ pc' = "loop_head"
  /\ UNCHANGED <<expiration_date, full_jobs, fut, results, gitVars,
                 displVars, output, histVars>>

\* main.rs:70-77: .unwrap().unwrap() then clean_jobs starts with page 1
MainRecvProject ==
  /\ pc = "await_project"
  /\ reply[MainTask] # NoReply
  /\ reply' = [reply EXCEPT ![MainTask] = NoReply]
  /\ IF reply[MainTask].kind = "Ok"
     THEN /\ project_id' = reply[MainTask].id
          /\ jobs_page' = Some(1)
          /\ pc' = "loop_head"
     ELSE /\ pc' = "panicked"
          /\ UNCHANGED <<project_id, jobs_page>>
  /\ UNCHANGED <<expiration_date, full_jobs, fut, results, gitVars,
                 displVars, output, histVars>>

\* What the server can answer to a list_jobs request, when it still holds
\* `room` jobs: the request fails, or the body is not a JSON list of jobs,
\* or it is one, with or without an x-next-page header.
ListAnswers(room) ==
  {[sent |-> "Err", decodes |-> FALSE, jobs |-> <<>>, header |-> None]}
  \cup {[sent |-> "Ok", decodes |-> FALSE, jobs |-> <<>>, header |-> None]}
  \cup {[sent |-> "Ok", decodes |-> TRUE, jobs |-> js, header |-> h] :
          js \in SeqsUpTo(Job, room),
          h \in {None} \cup {Some(v) : v \in HeaderValues}}

\* Handler<Event, GetJobs>::handle; "Panic" is the unwrap of res.json().
GetJobsHandle(ans) ==
  IF ans.sent = "Ok"
  THEN IF ~ans.decodes THEN [kind |-> "Panic"]
       ELSE OkJobs(ans.jobs, NextPage(ans.header))
  ELSE ErrOf("Other")

RECURSIVE JobsReturned(_)
JobsReturned(rs) ==
  IF rs = <<>> THEN <<>>
  ELSE JobsReturned(SubSeq(rs, 1, Len(rs) - 1)) \o rs[Len(rs)].jobs

GitHandleGetJobs ==
  /\ git_alive /\ git_mailbox # <<>>
  /\ Head(git_mailbox).type = "GetJobs"
  /\ Len(list_requests) < MaxPages
  /\ \E ans \in ListAnswers(MaxJobs - Len(JobsReturned(list_responses))) :
       LET r == GetJobsHandle(ans)
       IN /\ GitReply(Head(git_mailbox).from, r)
          /\ list_responses' =
               Append(list_responses,
                      IF r.kind = "Panic" THEN ActorError ELSE r)
  /\ list_requests' = Append(list_requests, Head(git_mailbox).arg)
  /\ UNCHANGED <<pc, mainVars, displVars, output, search_answers,
                 erase_requests, erase_outcomes, displ_handled,
                 failed_order, erase_answer>>

\* What the server can answer to an erase request: the request fails, or a
\* response comes back, with a success status or an error status.
EraseAnswers == {"Err", "Success", "ErrorStatus"}

\* Mutant of EraseJobHandle: the status of the response is checked
\* (error_for_status), an error response is an error.
EraseJobHandle_ChecksStatus(ans) ==
  IF ans = "Success" THEN OkUnit ELSE ErrOf("Other")

\* Handler<Event, EraseJob>::handle: Ok(_) for any response.
EraseJobHandle(ans) == IF ans = "Err" THEN ErrOf("Other") ELSE OkUnit

\* The erase requests sent to the store that have not returned yet.
EraseInFlight == Len(erase_requests) - Len(erase_outcomes)

\* Mutant of GitIdle: the actor gives a message to a handler while another
\* handler is still waiting for the store.
GitIdle_Concurrent == TRUE

\* Handler::handle takes `&mut self`: the actor gives the next message of
\* its mailbox to a handler only when the previous handler has returned.
GitIdle == EraseInFlight = 0

\* git.rs:161-166: the handler takes the message and sends the POST
\* .../jobs/{id}/erase request
GitStartEraseJob ==
  /\ git_alive /\ git_mailbox # <<>>
  /\ Head(git_mailbox).type = "EraseJob"
  /\ GitIdle
  /\ git_mailbox' = Tail(git_mailbox)
  /\ erase_requests' =
       Append(erase_requests,
              [idx |-> Head(git_mailbox).from, job_id |-> Head(git_mailbox).arg])
  /\ UNCHANGED <<pc, mainVars, git_alive, displVars, reply, output,
                 search_answers, list_requests, list_responses,
                 erase_outcomes, displ_handled, failed_order, erase_answer>>

\* git.rs:166-175: the request returns, the handler matches on it and the
\* asker gets the handler's return
GitFinishEraseJob ==
  /\ EraseInFlight > 0
  /\ \E ans \in EraseAnswers :
       LET req == erase_requests[Len(erase_outcomes) + 1]
           r == EraseJobHandle(ans)
       IN /\ reply' = [reply EXCEPT ![req.idx] = r]
          /\ erase_outcomes' =
               Append(erase_outcomes,
                      [idx |-> req.idx, ret |-> r.kind])
          /\ erase_answer' = Some(ans)
  /\ UNCHANGED <<pc, mainVars, gitVars, displVars, output, search_answers,
                 list_requests, list_responses, erase_requests,
                 displ_handled, failed_order>>

\* ---------------------------------------------------------------- Displ actor
\* Mutant of DisplayMessageHandle: the message is printed over the batch,
\* which is left active.
DisplayMessageHandle_KeepsBatch(pb) == pb

\* Handler<Event, DisplayMessage>::handle on Displ.progress_bar
DisplayMessageHandle(pb) == None

\* Mutant of InitProgressBarHandle: an existing bar is reused, with the new
\* length and its old position.
InitProgressBarHandle_KeepsPosition(pb, msg) ==
  Some([pos |-> IF pb # None THEN pb[1].pos ELSE 0,
        len |-> msg.length, msg |-> msg.message])

\* Handler<Event, InitProgressBar>::handle on Displ.progress_bar
InitProgressBarHandle(pb, msg) ==
  Some([pos |-> 0, len |-> msg.length, msg |-> msg.message])

\* Mutant of IncreaseProgressHandle: the bar advances by two (pb.inc(2)).
IncreaseProgressHandle_ByTwo(pb, msg) ==
  IF pb # None
  THEN Some([pb[1] EXCEPT !.msg = msg.message, !.pos = pb[1].pos + 2])
  ELSE pb

\* Handler<Event, IncreaseProgress>::handle on Displ.progress_bar
IncreaseProgressHandle(pb, msg) ==
  IF pb # None
  THEN Some([pb[1] EXCEPT !.msg = msg.message, !.pos = pb[1].pos + 1])
  ELSE pb

DisplTake ==
  /\ displ_mailbox # <<>>
  /\ displ_mailbox' = Tail(displ_mailbox)
  /\ reply' = [reply EXCEPT ![Head(displ_mailbox).from] = OkUnit]
  /\ displ_handled' = Append(displ_handled, Head(displ_mailbox).type)
  /\ UNCHANGED <<search_answers, list_requests, list_responses,
                 erase_requests, erase_outcomes, failed_order,
                 erase_answer>>

DisplHandleDisplayMessage ==
  /\ DisplTake
  /\ Head(displ_mailbox).type = "DisplayMessage"
  /\ progress_bar' = DisplayMessageHandle(progress_bar)
  /\ output' = Append(output, Head(displ_mailbox).message)
  /\ UNCHANGED <<pc, mainVars, gitVars>>

DisplHandleInitProgressBar ==
  /\ DisplTake
  /\ Head(displ_mailbox).type = "InitProgressBar"
  /\ progress_bar' = InitProgressBarHandle(progress_bar, Head(displ_mailbox))
  /\ UNCHANGED <<pc, mainVars, gitVars, output>>

DisplHandleIncreaseProgress ==
  /\ DisplTake
  /\ Head(displ_mailbox).type = "IncreaseProgress"
  /\ progress_bar' = IncreaseProgressHandle(progress_bar, Head(displ_mailbox))
  /\ UNCHANGED <<pc, mainVars, gitVars, output>>

\* ---------------------------------------------------------------- clean_jobs
\* main.rs:88-91: while let Some(page) = jobs_page { displ_ref.ask(DisplayMessage)
MainAskDisplayLoading ==
  /\ pc = "loop_head"
  /\ jobs_page # None
  /\ displ_mailbox' =
       Append(displ_mailbox,
              DisplMsg("DisplayMessage", MainTask,
                       <<"Loading jobs from page", jobs_page[1]>>, 0))
  /\ pc' = "await_loading"
  /\ UNCHANGED <<mainVars, gitVars, progress_bar, reply, output, histVars>>

\* main.rs:91-97: `let _ =` drops the reply; git_ref.ask(GetJobs { page })
MainAskGetJobs ==
  /\ pc = "await_loading"
  /\ reply[MainTask] # NoReply
  /\ reply' = [reply EXCEPT ![MainTask] = NoReply]
  /\ git_mailbox' = Append(git_mailbox, GitMsg("GetJobs", MainTask, jobs_page[1]))
  /\ pc' = "await_jobs"
  /\ UNCHANGED <<mainVars, git_alive, displVars, output, histVars>>

\* Mutant of MainRecvJobs: the next page is the current page plus one, not
\* the cursor of the response.
MainRecvJobs_PagePlusOne ==
  /\ pc = "await_jobs"
  /\ reply[MainTask] # NoReply
  /\ reply' = [reply EXCEPT ![MainTask] = NoReply]
  /\ IF reply[MainTask].kind = "Ok"
     THEN /\ full_jobs' = full_jobs \o reply[MainTask].jobs
          /\ jobs_page' = IF reply[MainTask].next_page = None THEN None
                          ELSE Some(jobs_page[1] + 1)
          /\ pc' = "loop_head"
     ELSE /\ pc' = "panicked"
          /\ UNCHANGED <<full_jobs, jobs_page>>
  /\ UNCHANGED <<expiration_date, project_id, fut, results, gitVars,
                 displVars, output, histVars>>

\* Mutant of MainRecvJobs: a failed list request ends the pagination
\* (unwrap_or_default) instead of ending the run.
MainRecvJobs_ErrorEndsPagination ==
  /\ pc = "await_jobs"
  /\ reply[MainTask] # NoReply
  /\ reply' = [reply EXCEPT ![MainTask] = NoReply]
  /\ full_jobs' = full_jobs \o reply[MainTask].jobs
  /\ jobs_page' = reply[MainTask].next_page
  /\ pc' = "loop_head"
  /\ UNCHANGED <<expiration_date, project_id, fut, results, gitVars,
                 displVars, output, histVars>>

\* Mutant of MainRecvJobs: the page replaces full_jobs instead of being
\* appended to it.
MainRecvJobs_Overwrite ==
  /\ pc = "await_jobs"
  /\ reply[MainTask] # NoReply
  /\ reply' = [reply EXCEPT ![MainTask] = NoReply]
  /\ IF reply[MainTask].kind = "Ok"
     THEN /\ full_jobs' = reply[MainTask].jobs
          /\ jobs_page' = reply[MainTask].next_page
          /\ pc' = "loop_head"
     ELSE /\ pc' = "panicked"
          /\ UNCHANGED <<full_jobs, jobs_page>>
  /\ UNCHANGED <<expiration_date, project_id, fut, results, gitVars,
                 displVars, output, histVars>>

\* Mutant of MainRecvJobs: the loop has a guard of its own, it is left
\* after the second page whatever the cursor.
MainRecvJobs_PageGuard ==
  /\ pc = "await_jobs"
  /\ reply[MainTask] # NoReply
  /\ reply' = [reply EXCEPT ![MainTask] = NoReply]
  /\ IF reply[MainTask].kind = "Ok"
     THEN /\ full_jobs' = full_jobs \o reply[MainTask].jobs
          /\ jobs_page' = IF Len(list_requests) >= 2
                          THEN None ELSE reply[MainTask].next_page
          /\ pc' = "loop_head"
     ELSE /\ pc' = "panicked"
          /\ UNCHANGED <<full_jobs, jobs_page>>
  /\ UNCHANGED <<expiration_date, project_id, fut, results, gitVars,
                 displVars, output, histVars>>

\* main.rs:97-104: .unwrap().unwrap(); full_jobs.append; jobs_page = next_page
MainRecvJobs ==
  /\ pc = "await_jobs"
  /\ reply[MainTask] # NoReply
  /\ reply' = [reply EXCEPT ![MainTask] = NoReply]
  /\ IF reply[MainTask].kind = "Ok"
     THEN /\ full_jobs' = full_jobs \o reply[MainTask].jobs
          /\ jobs_page' = reply[MainTask].next_page
          /\ pc' = "loop_head"
     ELSE /\ pc' = "panicked"
          /\ UNCHANGED <<full_jobs, jobs_page>>
  /\ UNCHANGED <<expiration_date, project_id, fut, results, gitVars,
                 displVars, output, histVars>>

\* Mutant of MainAskDisplayFound: the loop is left whether or not the last
\* response gave a next page (`if let` for `while let`).
MainAskDisplayFound_LeavesEarly ==
  /\ pc = "loop_head"
  /\ list_requests # <<>>
  /\ displ_mailbox' =
       Append(displ_mailbox,
              DisplMsg("DisplayMessage", MainTask,
                       <<"Found jobs to clean", Len(full_jobs)>>, 0))
  /\ pc' = "await_found"
  /\ UNCHANGED <<mainVars, gitVars, progress_bar, reply, output, histVars>>

\* main.rs:104-110: the loop ends; displ_ref.ask(DisplayMessage "Found N jobs")
MainAskDisplayFound ==
  /\ pc = "loop_head"
  /\ jobs_page = None
  /\ displ_mailbox' =
       Append(displ_mailbox,
              DisplMsg("DisplayMessage", MainTask,
                       <<"Found jobs to clean", Len(full_jobs)>>, 0))
  /\ pc' = "await_found"
  /\ UNCHANGED <<mainVars, gitVars, progress_bar, reply, output, histVars>>

\* main.rs:110-115: displ_ref.ask(InitProgressBar { length: jobs_count })
MainAskInitProgressBar ==
  /\ pc = "await_found"
  /\ reply[MainTask] # NoReply
  /\ reply' = [reply EXCEPT ![MainTask] = NoReply]
  /\ displ_mailbox' =
       Append(displ_mailbox,
              DisplMsg("InitProgressBar", MainTask,
                       <<"Cleaning the jobs...", 0>>, Len(full_jobs)))
  /\ pc' = "await_init"
  /\ UNCHANGED <<mainVars, gitVars, progress_bar, output, histVars>>

\* Mutant of EraseMessages: every future erases the first job's id.
EraseMessages_FirstId(jobs) ==
  [i \in 1..Len(jobs) |-> GitMsg("EraseJob", i, jobs[1].id)]

\* main.rs:117-121: one EraseJob per element of full_jobs, in its order,
\* asked by the future of that element.
EraseMessages(jobs) ==
  [i \in 1..Len(jobs) |-> GitMsg("EraseJob", i, jobs[i].id)]

\* main.rs:115-131: .unwrap(); join_all polls every future once, in order:
\* each sends its EraseJob to the Git mailbox and waits for the reply.
MainJoinAllStart ==
  /\ pc = "await_init"
  /\ reply[MainTask] # NoReply
  /\ reply' = [reply EXCEPT ![MainTask] = NoReply]
  /\ IF reply[MainTask].kind = "Ok"
     THEN /\ fut' = [i \in 1..Len(full_jobs) |-> "await_erase"]
          /\ results' = [i \in 1..Len(full_jobs) |-> "Pending"]
          /\ git_mailbox' = git_mailbox \o EraseMessages(full_jobs)
          /\ pc' = "join_all"
     ELSE /\ pc' = "panicked"
          /\ UNCHANGED <<fut, results, git_mailbox>>
  /\ UNCHANGED <<expiration_date, project_id, jobs_page, full_jobs,
                 git_alive, displVars, output, histVars>>

\* Mutant of FutureRecvErase: the error of the erase is unwrapped, not
\* returned with `?`, and ends the run.
FutureRecvErase_Unwrap(i) ==
  /\ pc = "join_all"
  /\ fut[i] = "await_erase"
  /\ reply[i] # NoReply
  /\ reply' = [reply EXCEPT ![i] = NoReply]
  /\ IF reply[i].kind = "Ok"
     THEN /\ displ_mailbox' =
               Append(displ_mailbox,
                      DisplMsg("IncreaseProgress", i,
                               <<"Job erased.", full_jobs[i].id>>, 0))
          /\ fut' = [fut EXCEPT ![i] = "await_progress"]
          /\ pc' = pc
     ELSE /\ pc' = "panicked"
          /\ UNCHANGED <<fut, displ_mailbox>>
  /\ UNCHANGED <<results, expiration_date, project_id, jobs_page, full_jobs,
                 gitVars, progress_bar, output, histVars>>

\* main.rs:118-127: the reply of the erase arrives; `?` returns the error,
\* otherwise displ_ref.ask(IncreaseProgress)
FutureRecvErase(i) ==
  /\ pc = "join_all"
  /\ fut[i] = "await_erase"
  /\ reply[i] # NoReply
  /\ reply' = [reply EXCEPT ![i] = NoReply]
  /\ IF reply[i].kind = "Ok"
     THEN /\ displ_mailbox' =
               Append(displ_mailbox,
                      DisplMsg("IncreaseProgress", i,
                               <<"Job erased.", full_jobs[i].id>>, 0))
          /\ fut' = [fut EXCEPT ![i] = "await_progress"]
          /\ UNCHANGED <<results, failed_order>>
     ELSE /\ results' =
               [results EXCEPT ![i] =
                  IF reply[i].kind = "ActorError"
                  THEN "ErrSend" ELSE "ErrErase"]
          /\ fut' = [fut EXCEPT ![i] = "done"]
          /\ failed_order' = Append(failed_order, i)
          /\ UNCHANGED displ_mailbox
  /\ UNCHANGED <<pc, expiration_date, project_id, jobs_page, full_jobs,
                 gitVars, progress_bar, output, search_answers,
                 list_requests, list_responses, erase_requests,
                 erase_outcomes, displ_handled, erase_answer>>

\* main.rs:125-128: `let _ =` drops the reply of IncreaseProgress; Ok(())
FutureRecvProgress(i) ==
  /\ pc = "join_all"
  /\ fut[i] = "await_progress"
  /\ reply[i] # NoReply
  /\ reply' = [reply EXCEPT ![i] = NoReply]
  /\ results' = [results EXCEPT ![i] = "Ok"]
  /\ fut' = [fut EXCEPT ![i] = "done"]
  /\ UNCHANGED <<pc, expiration_date, project_id, jobs_page, full_jobs,
                 gitVars, displVars, output, histVars>>

\* Mutant of ErrorLines: the filter on is_err is missing, every result
\* gets a line.
RECURSIVE ErrorLines_EveryResult(_, _)
ErrorLines_EveryResult(res, jobs) ==
  IF res = <<>> THEN <<>>
  ELSE Append(ErrorLines_EveryResult(SubSeq(res, 1, Len(res) - 1), jobs),
              <<"Error: Could not erase the job", jobs[Len(res)].id>>)

\* main.rs:132-134: one "Error: ..." line per Err of `results`, in its order.
RECURSIVE ErrorLines(_, _)
ErrorLines(res, jobs) ==
  IF res = <<>> THEN <<>>
  ELSE LET n == Len(res)
           rest == ErrorLines(SubSeq(res, 1, n - 1), jobs)
       IN CASE res[n] = "ErrErase" ->
                 Append(rest, <<"Error: Could not erase the job", jobs[n].id>>)
            [] res[n] = "ErrSend" ->
                 Append(rest, <<"Error: Could not send the action to erase the job",
                                jobs[n].id>>)
            [] OTHER -> rest

\* Mutant of MainJoinAllDone: the join returns at the first error
\* (try_join_all), dropping the futures still pending.
MainJoinAllDone_FirstError ==
  /\ pc = "join_all"
  /\ \/ \A i \in 1..Len(fut) : fut[i] = "done"
     \/ \E i \in 1..Len(fut) : results[i] \in {"ErrErase", "ErrSend"}
  /\ output' = output \o ErrorLines(results, full_jobs)
  /\ displ_mailbox' =
       Append(displ_mailbox,
              DisplMsg("DisplayMessage", MainTask, <<"Done erasing jobs.", 0>>, 0))
  /\ pc' = "await_done"
  /\ UNCHANGED <<mainVars, gitVars, progress_bar, reply, histVars>>

\* Mutant of MainJoinAllDone: the errors are printed as the futures
\* returned them (a FuturesUnordered stream), not as join_all orders them.
MainJoinAllDone_CompletionOrder ==
  /\ pc = "join_all"
  /\ \A i \in 1..Len(fut) : fut[i] = "done"
  /\ output' = output \o
       [k \in 1..Len(failed_order) |->
          ErrorLines(results, full_jobs)
            [Cardinality({j \in 1..failed_order[k] :
                           results[j] \in {"ErrErase", "ErrSend"}})]]
  /\ displ_mailbox' =
       Append(displ_mailbox,
              DisplMsg("DisplayMessage", MainTask, <<"Done erasing jobs.", 0>>, 0))
  /\ pc' = "await_done"
  /\ UNCHANGED <<mainVars, gitVars, progress_bar, reply, histVars>>

\* main.rs:131-138: join_all returns when every future has; the errors are
\* printed and displ_ref.ask(DisplayMessage "Done erasing jobs.")
MainJoinAllDone ==
  /\ pc = "join_all"
  /\ \A i \in 1..Len(fut) : fut[i] = "done"
  /\ output' = output \o ErrorLines(results, full_jobs)
  /\ displ_mailbox' =
       Append(displ_mailbox,
              DisplMsg("DisplayMessage", MainTask, <<"Done erasing jobs.", 0>>, 0))
  /\ pc' = "await_done"
  /\ UNCHANGED <<mainVars, gitVars, progress_bar, reply, histVars>>

\* main.rs:136-139: `let _ =` drops the reply; clean_jobs and main return
MainRecvDone ==
  /\ pc = "await_done"
  /\ reply[MainTask] # NoReply
  /\ reply' = [reply EXCEPT ![MainTask] = NoReply]
  /\ pc' = "done"
  /\ UNCHANGED <<mainVars, gitVars, displVars, output, histVars>>

Next ==
  \/ MainAskGetProject
  \/ GitHandleGetProject
  \/ MainRecvProject
  \/ MainAskDisplayLoading
  \/ DisplHandleDisplayMessage
  \/ MainAskGetJobs
  \/ GitHandleGetJobs
  \/ MainRecvJobs
  \/ MainAskDisplayFound
  \/ MainAskInitProgressBar
  \/ DisplHandleInitProgressBar
  \/ MainJoinAllStart
  \/ GitStartEraseJob
  \/ GitFinishEraseJob
  \/ \E i \in 1..Len(fut) : FutureRecvErase(i)
  \/ DisplHandleIncreaseProgress
  \/ \E i \in 1..Len(fut) : FutureRecvProgress(i)
  \/ MainJoinAllDone
  \/ MainRecvDone

Spec == Init /\ [][Next]_vars

\* ---------------------------------------------------------------- fairness
\* The steps of the main task (main, clean_jobs and the erase futures it
\* polls), of the Git actor and of the Displ actor: three tokio tasks.
MainStep ==
  \/ MainAskGetProject
  \/ MainRecvProject
  \/ MainAskDisplayLoading
  \/ MainAskGetJobs
  \/ MainRecvJobs
  \/ MainAskDisplayFound
  \/ MainAskInitProgressBar
  \/ MainJoinAllStart
  \/ \E i \in 1..Len(fut) : FutureRecvErase(i)
  \/ \E i \in 1..Len(fut) : FutureRecvProgress(i)
  \/ MainJoinAllDone
  \/ MainRecvDone

GitStep ==
  \/ GitHandleGetProject
  \/ GitHandleGetJobs
  \/ GitStartEraseJob
  \/ GitFinishEraseJob

DisplStep ==
  \/ DisplHandleDisplayMessage
  \/ DisplHandleInitProgressBar
  \/ DisplHandleIncreaseProgress

\* #[tokio::main]: the runtime polls every task that can make a step, and
\* every request sent to the server returns.
FairSpec ==
  Spec /\ WF_vars(MainStep) /\ WF_vars(GitStep) /\ WF_vars(DisplStep)

\* ---------------------------------------------------------------- Displ alone
\* The Displ actor under any caller: every message of displ.rs may be asked,
\* in any order, with any label and length.
DisplMessages ==
  {DisplMsg("DisplayMessage", MainTask, <<l, 0>>, 0) : l \in {"a", "b"}}
  \cup {DisplMsg("InitProgressBar", MainTask, <<l, 0>>, n) :
          l \in {"a", "b"}, n \in 0..MaxLength}
  \cup {DisplMsg("IncreaseProgress", MainTask, <<l, 0>>, 0) : l \in {"a", "b"}}

\* displ_ref.ask(msg) by a caller that does not wait for the reply
DisplAsk ==
  /\ Len(displ_handled) + Len(displ_mailbox) < MaxDisplMsgs
  /\ \E m \in DisplMessages : displ_mailbox' = Append(displ_mailbox, m)
  /\ UNCHANGED <<pc, mainVars, gitVars, progress_bar, reply, output, histVars>>

DisplNext ==
  \/ DisplAsk
  \/ DisplHandleDisplayMessage
  \/ DisplHandleInitProgressBar
  \/ DisplHandleIncreaseProgress

SpecDispl == Init /\ [][DisplNext]_vars

\* ---------------------------------------------------------------- properties
\* Indices of full_jobs an erase request has been sent for.
ErasedIdx == {erase_requests[k].idx : k \in 1..Len(erase_requests)}

\* join_all has returned: every erase attempt of the batch has completed.
ErasePhaseOver == pc \in {"await_done", "done"}

\* The server answered the search with a list of exactly n projects.
SearchReturned(ans, n) ==
  ans.sent = "Ok" /\ ans.decodes /\ Len(ans.projects) = n

\* C1: an erase request is issued for a fetched job if and only if its
\* created_at is strictly before the cutoff: never for a job created at or
\* after it, and, once the erase phase is over, for every job created before.
C1_EraseIffBeforeCutoff ==
  /\ \A i \in ErasedIdx : full_jobs[i].created_at < expiration_date
  /\ ErasePhaseOver =>
       \A i \in 1..Len(full_jobs) :
         full_jobs[i].created_at < expiration_date => i \in ErasedIdx

\* C2: when every erase attempt has returned, the progress counter equals
\* the number of jobs in the batch, whatever attempts failed.
C2_ProgressEqualsBatchLength ==
  (pc = "join_all" /\ \A i \in 1..Len(fut) : fut[i] = "done") =>
    /\ progress_bar # None
    /\ progress_bar[1].pos = Len(full_jobs)

\* C3: the reply to GetProject is the project's id when the search returned
\* exactly one project, NotFound when it returned none, Ambiguous
\* (ErrorKind::Unsupported) when it returned more than one, a transport
\* error (ErrorKind::Other) when the request failed, and nothing else.
C3_ResolveOutcomes ==
  (pc = "await_project" /\ search_answers # <<>>) =>
    LET ans == search_answers[1]
        r == reply[MainTask]
    IN \/ SearchReturned(ans, 1) /\ r = OkId(ans.projects[1].id)
       \/ SearchReturned(ans, 0) /\ r = ErrOf("NotFound")
       \/ (\E n \in 2..MaxProjects : SearchReturned(ans, n))
            /\ r = ErrOf("Unsupported")
       \/ ans.sent = "Err" /\ r = ErrOf("Other")

\* The search did not resolve the project: no answer with exactly one project.
ResolutionFailed ==
  search_answers # <<>> /\ ~SearchReturned(search_answers[1], 1)

\* C4: if project resolution fails, the main task takes no step but the one
\* that ends the run (the panic of unwrap), and no list_jobs request and no
\* erase_job request is ever sent, nor waits in a mailbox.
C4_FailedResolutionStopsRun ==
  ResolutionFailed =>
    /\ pc \in {"await_project", "panicked"}
    /\ pc = "await_project" => reply[MainTask].kind \in {"Err", "ActorError"}
    /\ list_requests = <<>> /\ erase_requests = <<>>
    /\ git_mailbox = <<>> /\ displ_mailbox = <<>>
    /\ full_jobs = <<>> /\ output = <<>>

\* The run has ended by the panic, after an ambiguous search.
C4_Witness ==
  /\ pc = "panicked"
  /\ search_answers # <<>> /\ SearchReturned(search_answers[1], 2)

\* The pagination loop has been left (main.rs:104).
AfterPagination ==
  pc \in {"await_found", "await_init", "join_all", "await_done", "done"}

\* The last list_jobs response is a page without a next-page cursor.
LastPageReceived ==
  /\ list_responses # <<>>
  /\ Len(list_responses) = Len(list_requests)
  /\ list_responses[Len(list_responses)].kind = "Ok"
  /\ list_responses[Len(list_responses)].next_page = None

\* C5: the first list request asks for page 1; every later one asks for the
\* page number the previous response gave as cursor; the loop is left only
\* on a response without cursor; and the accumulated sequence is the
\* concatenation, in fetch order, of the jobs of every page fetched.
C5_Pagination ==
  /\ list_requests # <<>> => list_requests[1] = 1
  /\ \A k \in 2..Len(list_requests) :
       /\ list_responses[k - 1].kind = "Ok"
       /\ list_responses[k - 1].next_page = Some(list_requests[k])
  /\ pc = "loop_head" =>
       /\ full_jobs = JobsReturned(list_responses)
       /\ jobs_page = IF list_responses = <<>> THEN Some(1)
                      ELSE list_responses[Len(list_responses)].next_page
  /\ AfterPagination =>
       /\ LastPageReceived
       /\ full_jobs = JobsReturned(list_responses)

\* Two pages were fetched, the second one at the page number of the first
\* one's cursor, both with jobs, and the run has gone through.
C5_Witness ==
  /\ pc = "done"
  /\ list_requests = <<1, 3>>
  /\ list_responses[1].jobs # <<>> /\ list_responses[2].jobs # <<>>
  /\ Len(full_jobs) = 2

\* Number of erase requests sent for element i of full_jobs.
RequestsForIdx(i) ==
  Cardinality({k \in 1..Len(erase_requests) : erase_requests[k].idx = i})

\* C6: a failing erase never prevents the attempt for another job of the
\* batch: while the futures run, every job has had its request sent or has
\* it waiting in the mailbox of the live Git actor; once join_all has
\* returned, exactly one request was sent for every job of the batch, with
\* its id, and the results hold one outcome per job.
C6_EveryJobAttempted ==
  /\ pc = "join_all" =>
       \A i \in 1..Len(full_jobs) :
         \/ i \in ErasedIdx
         \/ git_alive /\ \E k \in 1..Len(git_mailbox) :
                           git_mailbox[k] = GitMsg("EraseJob", i, full_jobs[i].id)
  /\ ErasePhaseOver =>
       /\ Len(results) = Len(full_jobs)
       /\ \A i \in 1..Len(full_jobs) :
            /\ results[i] \in {"Ok", "ErrErase", "ErrSend"}
            /\ RequestsForIdx(i) = 1
            /\ \E k \in 1..Len(erase_requests) :
                 erase_requests[k] = [idx |-> i, job_id |-> full_jobs[i].id]

\* The erase of the first job failed and the second job was erased all the same.
C6_Witness ==
  /\ ErasePhaseOver
  /\ results = <<"ErrErase", "Ok">>
  /\ Len(erase_requests) = 2

\* C7: no erase request is sent before the list response without cursor has
\* been received, and no list request is sent once an erase request has been.
C7_PhasesNeverOverlap ==
  /\ [](erase_requests # <<>> =>
          /\ LastPageReceived
          /\ \A k \in 1..Len(git_mailbox) : git_mailbox[k].type # "GetJobs")
  /\ [][erase_requests # <<>> => list_requests' = list_requests]_vars

\* Erasing has begun after a pagination of two pages.
C7_Witness ==
  /\ erase_requests # <<>>
  /\ Len(list_requests) = 2

\* C8: if a list_jobs request fails with a transport error, on the first
\* page or a later one, the main task takes no step but the panic of unwrap
\* and no erase request is sent, nor waits in the mailbox.
C8_ListFailureStopsRun ==
  (\E k \in 1..Len(list_responses) : list_responses[k].kind = "Err") =>
    /\ pc \in {"await_jobs", "panicked"}
    /\ pc = "await_jobs" => reply[MainTask].kind = "Err"
    /\ erase_requests = <<>>
    /\ git_mailbox = <<>>
    /\ fut = <<>>

\* The second page failed after a first page with jobs, and the run has ended.
C8_Witness ==
  /\ pc = "panicked"
  /\ Len(list_responses) = 2
  /\ list_responses[1].jobs # <<>>
  /\ list_responses[2].kind = "Err"

\* Number of erase requests sent that carry job id `id`.
RequestsForId(id) ==
  Cardinality({k \in 1..Len(erase_requests) : erase_requests[k].job_id = id})

\* Number of times job id `id` occurs in the pages fetched.
FetchedOccurrences(id) ==
  LET js == JobsReturned(list_responses)
  IN Cardinality({k \in 1..Len(js) : js[k].id = id})

\* C9, as stated: at most one erase request is sent for a job id, also when
\* the pages repeat a job id.
C9_AtMostOncePerId ==
  \A id \in 1..MaxJobId : RequestsForId(id) <= 1

\* C9, amended: the erase requests carrying a job id are never more than the
\* occurrences of that id in the pages fetched, and as many once the erase
\* phase is over; so at most one when the pages return the id at most once.
C9_OncePerFetchedOccurrence ==
  /\ \A i \in 1..Len(full_jobs) : RequestsForIdx(i) <= 1
  /\ \A id \in 1..MaxJobId :
       /\ RequestsForId(id) <= FetchedOccurrences(id)
       /\ ErasePhaseOver => RequestsForId(id) = FetchedOccurrences(id)
       /\ FetchedOccurrences(id) <= 1 => RequestsForId(id) <= 1

\* Two pages returned the same job id, and it was erased twice.
C9_Witness ==
  /\ ErasePhaseOver
  /\ Len(list_requests) = 2
  /\ \E id \in 1..MaxJobId :
       FetchedOccurrences(id) = 2 /\ RequestsForId(id) = 2

\* Ids of the jobs the list responses of the run returned.
FetchedIds ==
  LET js == JobsReturned(list_responses)
  IN {js[k].id : k \in 1..Len(js)}

\* Ids an erase request has been sent for.
ErasedIds == {erase_requests[k].job_id : k \in 1..Len(erase_requests)}

\* C10: no job is erased that a list response of the run did not return,
\* and once the erase phase is over every returned job has had its erase
\* request: the erased jobs are exactly the fetched ones.
C10_ErasedAreExactlyFetched ==
  /\ ErasedIds \subseteq FetchedIds
  /\ ErasePhaseOver => ErasedIds = FetchedIds

\* Two pages returned one job each, with different ids, and both were erased.
C10_Witness ==
  /\ ErasePhaseOver
  /\ Len(list_requests) = 2
  /\ list_responses[1].jobs # <<>> /\ list_responses[2].jobs # <<>>
  /\ Cardinality(ErasedIds) = 2

\* C11: in every reachable state the progress counter is at most the length
\* the batch was begun with.
C11_ProgressWithinLength ==
  progress_bar # None => progress_bar[1].pos <= progress_bar[1].len

\* The bar is full: both jobs of a batch of two were erased and counted.
C11_Witness ==
  /\ progress_bar # None
  /\ progress_bar[1].len = 2
  /\ progress_bar[1].pos = 2

\* Number of "Done erasing jobs." lines printed.
DoneLines ==
  Cardinality({k \in 1..Len(output) : output[k] = <<"Done erasing jobs.", 0>>})

\* C12: once the last page has been received the run never ends by a panic,
\* whatever the erase outcomes are; "Done erasing jobs." is printed at most
\* once, only after every erase attempt of the batch has returned and every
\* future has completed, and exactly once when the run is done.
C12_DoneOnceAfterAllAttempts ==
  /\ LastPageReceived => pc # "panicked"
  /\ DoneLines <= 1
  /\ DoneLines = 1 =>
       /\ ErasePhaseOver
       /\ Len(erase_outcomes) = Len(full_jobs)
       /\ \A i \in 1..Len(full_jobs) :
            fut[i] = "done" /\ results[i] # "Pending"
  /\ pc = "done" => DoneLines = 1

\* The run is done, the completion message printed, and every erase failed.
C12_Witness ==
  /\ pc = "done"
  /\ DoneLines = 1
  /\ results = <<"ErrErase", "ErrErase">>

\* The "Error: ..." lines printed, in order.
FailureLines ==
  SelectSeq(output,
            LAMBDA l : l[1] \in {"Error: Could not erase the job",
                                 "Error: Could not send the action to erase the job"})

\* Number of failure lines printed that name job id `id`.
FailureLinesFor(id) ==
  Cardinality({k \in 1..Len(FailureLines) : FailureLines[k][2] = id})

\* Number of erase requests for job id `id` whose handler returned an error.
FailedErasesFor(id) ==
  Cardinality({k \in 1..Len(erase_outcomes) :
                 /\ erase_outcomes[k].ret = "Err"
                 /\ erase_requests[k].job_id = id})

\* C13: no failure line is printed before join_all has returned; after it,
\* the failure lines are as many as the erase requests that returned an
\* error, and for every job id as many lines name it as erases of it failed.
C13_OneLinePerFailure ==
  /\ ~ErasePhaseOver => FailureLines = <<>>
  /\ ErasePhaseOver =>
       /\ Len(FailureLines) =
            Cardinality({k \in 1..Len(erase_outcomes) :
                           erase_outcomes[k].ret = "Err"})
       /\ \A id \in 1..MaxJobId : FailureLinesFor(id) = FailedErasesFor(id)

\* The first job was erased, the erase of the second failed, and the report
\* holds the one line, naming the second job.
C13_Witness ==
  /\ ErasePhaseOver
  /\ results = <<"Ok", "ErrErase">>
  /\ FailureLines = <<<<"Error: Could not erase the job", full_jobs[2].id>>>>

\* This step is Displ handling a message of type t.
DisplHandles(t) ==
  /\ displ_mailbox # <<>>
  /\ Head(displ_mailbox).type = t
  /\ displ_handled' = Append(displ_handled, t)

\* A display has been handled and no batch has been begun since.
NoBatchSinceDisplay ==
  \E k \in 1..Len(displ_handled) :
    /\ displ_handled[k] = "DisplayMessage"
    /\ \A j \in (k + 1)..Len(displ_handled) :
         displ_handled[j] # "InitProgressBar"

\* C14: from any state of the reporter, handling a display leaves no batch
\* active and prints the message as one more line; and an advance handled
\* after a display, before the next begin_batch, changes neither the batch
\* state nor the output.
C14_DisplayClearsBatch ==
  /\ [][DisplHandles("DisplayMessage") =>
          /\ progress_bar' = None
          /\ output' = Append(output, Head(displ_mailbox).message)]_vars
  /\ [][(DisplHandles("IncreaseProgress") /\ NoBatchSinceDisplay) =>
          /\ progress_bar = None
          /\ progress_bar' = None
          /\ output' = output]_vars

\* A batch was begun, a display cleared it, and an advance came after it.
C14_Witness ==
  /\ displ_handled = <<"InitProgressBar", "DisplayMessage", "IncreaseProgress">>
  /\ progress_bar = None
  /\ Len(output) = 1

\* C15: an advance handled with no batch active leaves the reporter state
\* unchanged; with a batch active it adds exactly 1 to the counter, keeps
\* the length and sets the label; and a begin_batch, from any state, leaves
\* one active batch at counter 0 with the given length and label.
C15_AdvanceAndBeginBatch ==
  /\ [][(DisplHandles("IncreaseProgress") /\ progress_bar = None) =>
          /\ progress_bar' = None
          /\ output' = output]_vars
  /\ [][(DisplHandles("IncreaseProgress") /\ progress_bar # None) =>
          /\ progress_bar' # None
          /\ progress_bar'[1].pos = progress_bar[1].pos + 1
          /\ progress_bar'[1].len = progress_bar[1].len
          /\ progress_bar'[1].msg = Head(displ_mailbox).message
          /\ output' = output]_vars
  /\ [][DisplHandles("InitProgressBar") =>
          /\ progress_bar' = Some([pos |-> 0,
                                   len |-> Head(displ_mailbox).length,
                                   msg |-> Head(displ_mailbox).message])
          /\ output' = output]_vars

\* A batch was begun and advanced, and a second begin_batch replaced it: the
\* counter is back at 0.
C15_Witness ==
  /\ displ_handled = <<"InitProgressBar", "IncreaseProgress", "InitProgressBar">>
  /\ progress_bar # None
  /\ progress_bar[1].pos = 0
  /\ progress_bar[1].len = 2

\* The failure line of the erase future of index i.
FailureLineOf(i) ==
  <<IF results[i] = "ErrSend"
    THEN "Error: Could not send the action to erase the job"
    ELSE "Error: Could not erase the job",
    full_jobs[i].id>>

\* The indices of the failed erase futures, in the order the jobs were listed.
FailedInListingOrder ==
  SelectSeq([i \in 1..Len(results) |-> i],
            LAMBDA i : results[i] \in {"ErrErase", "ErrSend"})

LastEraseOutcome == erase_outcomes[Len(erase_outcomes)]

\* C17: the erase handler returns an error exactly when the request itself
\* failed; when the store returned a response, with a success status or an
\* error status, the handler returns Ok, and the attempt is recorded as a
\* success (its future is never an error, and is Ok once the progress step
\* has been acknowledged).
C17_FailsOnlyWhenRequestFails ==
  erase_outcomes # <<>> =>
    /\ LastEraseOutcome.ret = "Err" <=> erase_answer = Some("Err")
    /\ LastEraseOutcome.ret = "Ok" <=>
         erase_answer \in {Some("Success"), Some("ErrorStatus")}
    /\ results[LastEraseOutcome.idx] \in {"ErrErase", "ErrSend"} =>
         erase_answer = Some("Err")
    /\ results[LastEraseOutcome.idx] = "Ok" => erase_answer # Some("Err")

\* The store answered the last erase with an error status and the attempt
\* is recorded as a success.
C17_Witness ==
  /\ ErasePhaseOver
  /\ erase_answer = Some("ErrorStatus")
  /\ LastEraseOutcome.ret = "Ok"
  /\ results[LastEraseOutcome.idx] = "Ok"

\* C18: at every moment at most one erase request has been sent to the
\* store and has not returned, so a new one is sent only after the previous
\* one has returned; requests are in flight only during the erase phase,
\* and they are sent in the order the futures dispatched them.
C18_OneEraseAtATime ==
  /\ EraseInFlight \in {0, 1}
  /\ EraseInFlight = 1 => pc = "join_all"
  /\ \A k \in 1..Len(erase_requests) : erase_requests[k].idx = k

\* Both erase messages were dispatched: one request is in flight and the
\* other waits in the mailbox of the Git actor.
C18_Witness ==
  /\ EraseInFlight = 1
  /\ erase_requests = <<[idx |-> 1, job_id |-> full_jobs[1].id]>>
  /\ Len(git_mailbox) = 1
  /\ Head(git_mailbox).type = "EraseJob"
  /\ Head(git_mailbox).from = 2

\* The run has ended: main returned, or panicked.
Terminated == pc \in {"done", "panicked"}

\* Every list_jobs response so far is a page with a next-page cursor.
OnlyCursorsSoFar ==
  /\ list_responses # <<>>
  /\ \A k \in 1..Len(list_responses) :
       /\ list_responses[k].kind = "Ok"
       /\ list_responses[k].next_page # None

\* C19: under fairness, once the store has returned a page without a
\* next-page cursor the run eventually terminates; and as long as every
\* response so far carried a cursor the run is still in the pagination loop,
\* asking for the page the last cursor named, and no erase request has been
\* dispatched or sent.
C19_TerminatesWhenCursorEnds ==
  /\ LastPageReceived ~> Terminated
  /\ [](OnlyCursorsSoFar =>
         /\ pc \in {"await_jobs", "loop_head", "await_loading"}
         /\ pc \in {"loop_head", "await_loading"} =>
              jobs_page = list_responses[Len(list_responses)].next_page
         /\ erase_requests = <<>>
         /\ \A k \in 1..Len(git_mailbox) : git_mailbox[k].type # "EraseJob")

\* The store returned a page with a cursor, then a page without one, and
\* the run is done.
C19_Witness ==
  /\ pc = "done"
  /\ Len(list_responses) = 2
  /\ list_responses[1].next_page = Some(3)
  /\ LastPageReceived
====
